---- MODULE Spec2Model ----
(***************************************************************************)
(* State-machine model of the Clue deduction engine:                       *)
(*   PlayerCardTracker          (src/player_card_tracker.py)               *)
(*   EnvelopeProbabilityEngine  (src/engines/envelope_probability_engine.py)*)
(*   ClueGameState              (src/clue_game.py)                         *)
(*   RuleBasedInferenceEngine   (src/engines/rule_based_inference_engine.py)*)
(*   ClueGameManager            (src/clue_game_manager.py)                 *)
(*                                                                         *)
(* Numbers.  The program computes with Python floats, i.e. finite-precision*)
(* numbers where every operation rounds its exact result.  Already         *)
(* sum([1/6]*6) is 0.9999999999999999 in the program, which is why the     *)
(* specification states its sums "+- epsilon".  The model keeps that shape *)
(* at a smaller precision: a probability is a natural number of units of   *)
(* 1/Scale (1.0 is Scale), and every multiplication and division rounds to *)
(* the nearest unit.  0.0 and 1.0, x/x, x*0 and sums are exact.  Sums are  *)
(* compared up to Eps units.                                               *)
(***************************************************************************)
EXTENDS Integers, Sequences, FiniteSets, TLC

(***************************************************************************)
(* Bounds of the model.                                                    *)
(***************************************************************************)
\* units per 1.0: the precision of the modelled floats
Scale == 10000
\* number of calls (set_remainder_cards, add_suggestion, ...) in a behaviour
MaxCalls == 2
\* number of calls in a behaviour of the rule-augmented ClueGameManager
MaxManagerCalls == 3

(***************************************************************************)
(* The deck (clue_constants.py) and the players.                           *)
(***************************************************************************)
SUSPECTS == <<"Scarlett", "Mustard", "White", "Green", "Peacock", "Plum">>
WEAPONS == <<"Candlestick", "Knife", "LeadPipe", "Revolver", "Rope", "Wrench">>
ROOMS == <<"Kitchen", "Ballroom", "Conservatory", "DiningRoom", "BilliardRoom",
           "Library", "Lounge", "Hall", "Study">>

Range(seq) == {seq[i] : i \in 1..Len(seq)}

\* all_cards = SUSPECTS + WEAPONS + ROOMS
all_cards == SUSPECTS \o WEAPONS \o ROOMS
Cards == Range(all_cards)

\* the players list given to the constructor; players[0] is forced to "You"
players == <<"You", "A", "B">>
PlayerSet == Range(players)

\* Python's None
None == "None"
\* a name that is not one of the game's players
Stranger == "Zed"

\* hand_sizes = {player: 3 for player in players}
HandSize == 3
hand_sizes == [p \in PlayerSet |-> HandSize * Scale]

(***************************************************************************)
(* Finite-precision arithmetic.                                            *)
(***************************************************************************)
One == Scale
Zero == 0
\* a / b, rounded to the nearest unit (b > 0)
Div(a, b) == (2 * a * Scale + b) \div (2 * b)
\* a / n for a whole number n > 0, rounded to the nearest unit
DivN(a, n) == (2 * a + n) \div (2 * n)
\* a * b, rounded to the nearest unit
Mul(a, b) == (2 * a * b + Scale) \div (2 * Scale)
\* tolerance of a comparison of sums, in units: one unit per summand and
\* per rounding of a summand
Eps == 2 * Len(all_cards)

Max(a, b) == IF a >= b THEN a ELSE b

RECURSIVE SumTo(_, _, _)
\* f[seq[1]] + ... + f[seq[n]]
SumTo(f, seq, n) == IF n = 0 THEN 0 ELSE f[seq[n]] + SumTo(f, seq, n - 1)
\* sum(f[x] for x in seq)
Sum(f, seq) == SumTo(f, seq, Len(seq))

\* list.index(x), 1-based; 0 stands for the ValueError of a missing element
Index(seq, x) ==
    IF x \in Range(seq) THEN CHOOSE i \in 1..Len(seq) : seq[i] = x ELSE 0

\* seq[a:b] with Python's 0-based, end-exclusive, clamped slice bounds
Slice(seq, a, b) ==
    LET lo == IF a > Len(seq) THEN Len(seq) ELSE a
        hi == IF b > Len(seq) THEN Len(seq) ELSE b
    IN  IF hi <= lo THEN << >> ELSE SubSeq(seq, lo + 1, hi)

(***************************************************************************)
(* PlayerCardTracker.  A tracker value is a record                         *)
(*   player_card_probs : player -> card -> probability                     *)
(*   known_cards       : player -> set of cards                            *)
(*   cannot_have       : player -> set of cards                            *)
(***************************************************************************)
\* PlayerCardTracker.__init__: 1.0 / len(players) for every player and card
TrackerInit ==
    [player_card_probs |->
         [p \in PlayerSet |-> [c \in Cards |-> DivN(One, Len(players))]],
     known_cards |-> [p \in PlayerSet |-> {}],
     cannot_have |-> [p \in PlayerSet |-> {}]]

\* sum(probs[player][card] for player in self.players)
CardTotal(probs, card) == Sum([p \in PlayerSet |-> probs[p][card]], players)

\* sum(probs[player].values())
PlayerTotal(probs, player) == Sum(probs[player], all_cards)

\* first loop of _normalize_probabilities: each card's column divided by its
\* total when the total is positive
NormalizeCards(probs) ==
    [p \in PlayerSet |->
        [c \in Cards |->
            LET total == CardTotal(probs, c)
            IN  IF total > 0 THEN Div(probs[p][c], total) ELSE probs[p][c]]]

\* NormalizeHands with the scale factor inverted (total_prob / hand_size):
\* the mutant that C2 is checked against
NormalizeHandsInverted(probs, known) ==
    [p \in PlayerSet |->
        LET total_prob == PlayerTotal(probs, p)
            scale_factor == Div(total_prob, hand_sizes[p])
        IN  IF total_prob > hand_sizes[p]
            THEN [c \in Cards |->
                    IF c \notin known[p] THEN Mul(probs[p][c], scale_factor)
                    ELSE probs[p][c]]
            ELSE probs[p]]

\* second loop of _normalize_probabilities: a player whose total exceeds the
\* hand size has the entries of the cards not in known_cards[player] scaled
NormalizeHands(probs, known) ==
    [p \in PlayerSet |->
        LET total_prob == PlayerTotal(probs, p)
            scale_factor == Div(hand_sizes[p], total_prob)
        IN  IF total_prob > hand_sizes[p]
            THEN [c \in Cards |->
                    IF c \notin known[p] THEN Mul(probs[p][c], scale_factor)
                    ELSE probs[p][c]]
            ELSE probs[p]]

\* PlayerCardTracker._normalize_probabilities
NormalizeProbabilities(probs, known) ==
    NormalizeHands(NormalizeCards(probs), known)

\* players_in_order[suggester_idx+1:responder_idx] of update_from_suggestion,
\* with responder_idx += len(players_in_order) when it is below suggester_idx
PassedPlayers(players_in_order, suggesting_player, responder) ==
    LET suggester_idx == Index(players_in_order, suggesting_player) - 1
        idx == Index(players_in_order, responder) - 1
        responder_idx == IF idx < suggester_idx
                         THEN idx + Len(players_in_order) ELSE idx
    IN  Slice(players_in_order, suggester_idx + 1, responder_idx)

\* Case 1 of update_from_suggestion and the loop of mark_known_card: the card
\* is pinned to 1.0 and known for `holder`, 0.0 and cannot-have for the others
PinCard(t, holder, card) ==
    [player_card_probs |->
         [p \in PlayerSet |->
            [t.player_card_probs[p] EXCEPT ![card] =
                 IF p = holder THEN One ELSE Zero]],
     known_cards |->
         [p \in PlayerSet |->
            IF p = holder THEN t.known_cards[p] \cup {card}
            ELSE t.known_cards[p]],
     cannot_have |->
         [p \in PlayerSet |->
            IF p = holder THEN t.cannot_have[p]
            ELSE t.cannot_have[p] \cup {card}]]

\* INCREASE_FACTOR = 1.5
INCREASE_FACTOR == (3 * Scale) \div 2

\* Case 2 of update_from_suggestion (responder, shown card unknown); both
\* players are in players_in_order here
UnknownShown(t, suggested_cards, suggesting_player, responder, players_in_order) ==
    LET passed_players ==
            Range(PassedPlayers(players_in_order, suggesting_player, responder))
        cards == Range(suggested_cards)
        zeroed == [p \in PlayerSet |->
                     [c \in Cards |->
                        IF p \in passed_players /\ c \in cards THEN Zero
                        ELSE t.player_card_probs[p][c]]]
    IN  [player_card_probs |->
             [zeroed EXCEPT ![responder] =
                 [c \in Cards |->
                    IF c \in cards /\ c \notin t.known_cards[responder]
                    THEN Mul(zeroed[responder][c], INCREASE_FACTOR)
                    ELSE zeroed[responder][c]]],
         known_cards |-> t.known_cards,
         cannot_have |->
             [p \in PlayerSet |->
                IF p \in passed_players THEN t.cannot_have[p] \cup cards
                ELSE t.cannot_have[p]]]

\* NoRefute with the entries multiplied by DECREASE_FACTOR = 0.5 instead of
\* set to 0.0: the mutant that C20 is checked against
NoRefuteDecreasing(t, suggested_cards) ==
    LET cards == Range(suggested_cards)
    IN  [player_card_probs |->
             [p \in PlayerSet |->
                [c \in Cards |->
                   IF c \in cards /\ c \notin t.known_cards[p]
                   THEN Mul(t.player_card_probs[p][c], Scale \div 2)
                   ELSE t.player_card_probs[p][c]]],
         known_cards |-> t.known_cards,
         cannot_have |->
             [p \in PlayerSet |->
                t.cannot_have[p] \cup (cards \ t.known_cards[p])]]

\* Case 3 of update_from_suggestion (no responder)
NoRefute(t, suggested_cards) ==
    LET cards == Range(suggested_cards)
    IN  [player_card_probs |->
             [p \in PlayerSet |->
                [c \in Cards |->
                   IF c \in cards /\ c \notin t.known_cards[p] THEN Zero
                   ELSE t.player_card_probs[p][c]]],
         known_cards |-> t.known_cards,
         cannot_have |->
             [p \in PlayerSet |->
                t.cannot_have[p] \cup (cards \ t.known_cards[p])]]

\* Normalized with the trailing self._normalize_probabilities() left out:
\* the mutant that C23 is checked against
NotNormalized(t) == t

\* the trailing self._normalize_probabilities() of an update
Normalized(t) ==
    [t EXCEPT !.player_card_probs =
        NormalizeProbabilities(t.player_card_probs, t.known_cards)]

\* does update_from_suggestion raise?  Only Case 2 looks the two players up
\* (players_in_order.index), before it changes anything
UpdateRaises(suggesting_player, responder, shown_card, players_in_order) ==
    /\ responder # None
    /\ shown_card = None
    /\ \/ suggesting_player \notin Range(players_in_order)
       \/ responder \notin Range(players_in_order)

\* PlayerCardTracker.update_from_suggestion; the tracker is unchanged when
\* the call raises
update_from_suggestion(t, suggested_cards, suggesting_player, responder, shown_card, players_in_order) ==
    IF responder # None /\ shown_card # None
    THEN Normalized(PinCard(t, responder, shown_card))
    ELSE IF responder # None
    THEN IF UpdateRaises(suggesting_player, responder, shown_card, players_in_order)
         THEN t
         ELSE Normalized(UnknownShown(t, suggested_cards, suggesting_player,
                                      responder, players_in_order))
    ELSE Normalized(NoRefute(t, suggested_cards))

\* PlayerCardTracker.mark_known_card
mark_known_card(t, player, card) == Normalized(PinCard(t, player, card))

\* PlayerCardTracker.get_envelope_probabilities
get_envelope_probabilities(t) ==
    [c \in Cards |-> Max(Zero, One - CardTotal(t.player_card_probs, c))]

(***************************************************************************)
(* EnvelopeProbabilityEngine.  An engine value is a record                 *)
(*   suspect_probs, weapon_probs, room_probs : card -> probability         *)
(*   known_cards                             : set of cards                *)
(***************************************************************************)
\* EnvelopeProbabilityEngine._initialize_category_probs
InitializeCategoryProbs(cards) ==
    [c \in Range(cards) |-> DivN(One, Len(cards))]

\* EnvelopeProbabilityEngine.__init__
EngineInit ==
    [suspect_probs |-> InitializeCategoryProbs(SUSPECTS),
     weapon_probs |-> InitializeCategoryProbs(WEAPONS),
     room_probs |-> InitializeCategoryProbs(ROOMS),
     known_cards |-> {}]

\* DECREASE_FACTOR = 0.5
DECREASE_FACTOR == Scale \div 2

\* one branch of _update_known_card: the card gets 0.0 and every card of the
\* category that is not known gets 1.0 / len(remaining_cards)
RedistributeCategory(probs, category, known, card) ==
    LET remaining_cards == Range(category) \ known
    IN  [c \in Range(category) |->
            IF c \in remaining_cards
            THEN DivN(One, Cardinality(remaining_cards))
            ELSE IF c = card THEN Zero ELSE probs[c]]

\* EnvelopeProbabilityEngine._update_known_card
UpdateKnownCard(e, card) ==
    LET known == e.known_cards \cup {card}
    IN  [suspect_probs |->
             IF card \in Range(SUSPECTS)
             THEN RedistributeCategory(e.suspect_probs, SUSPECTS, known, card)
             ELSE e.suspect_probs,
         weapon_probs |->
             IF card \in Range(WEAPONS)
             THEN RedistributeCategory(e.weapon_probs, WEAPONS, known, card)
             ELSE e.weapon_probs,
         room_probs |->
             IF card \in Range(ROOMS)
             THEN RedistributeCategory(e.room_probs, ROOMS, known, card)
             ELSE e.room_probs,
         known_cards |-> known]

\* DecreaseProbability with the factor applied twice, as when the loop over
\* the suggested cards also runs for the branch above it: the mutant that
\* C18 is checked against
DecreaseProbabilityTwice(e, card) ==
    LET twice(x) == Mul(Mul(x, DECREASE_FACTOR), DECREASE_FACTOR)
    IN  [suspect_probs |->
             IF card \in Range(SUSPECTS)
             THEN [e.suspect_probs EXCEPT ![card] = twice(@)]
             ELSE e.suspect_probs,
         weapon_probs |->
             IF card \in Range(WEAPONS)
             THEN [e.weapon_probs EXCEPT ![card] = twice(@)]
             ELSE e.weapon_probs,
         room_probs |->
             IF card \in Range(ROOMS)
             THEN [e.room_probs EXCEPT ![card] = twice(@)]
             ELSE e.room_probs,
         known_cards |-> e.known_cards]

\* EnvelopeProbabilityEngine._decrease_probability
DecreaseProbability(e, card) ==
    [suspect_probs |->
         IF card \in Range(SUSPECTS)
         THEN [e.suspect_probs EXCEPT ![card] = Mul(@, DECREASE_FACTOR)]
         ELSE e.suspect_probs,
     weapon_probs |->
         IF card \in Range(WEAPONS)
         THEN [e.weapon_probs EXCEPT ![card] = Mul(@, DECREASE_FACTOR)]
         ELSE e.weapon_probs,
     room_probs |->
         IF card \in Range(ROOMS)
         THEN [e.room_probs EXCEPT ![card] = Mul(@, DECREASE_FACTOR)]
         ELSE e.room_probs,
     known_cards |-> e.known_cards]

RECURSIVE DecreaseOthers(_, _, _, _)
\* for card in suggested_cards[:n]: if card != shown_card: decrease
DecreaseOthers(e, suggested_cards, shown_card, n) ==
    IF n = 0 THEN e
    ELSE LET before == DecreaseOthers(e, suggested_cards, shown_card, n - 1)
         IN  IF suggested_cards[n] # shown_card
             THEN DecreaseProbability(before, suggested_cards[n])
             ELSE before

\* OneHot replaced by a call of _increase_probability (the card's
\* probability times INCREASE_FACTOR = 2.0, the siblings left alone): the
\* mutant that C7 is checked against
OneHotAsIncrease(e, card) ==
    [suspect_probs |->
         IF card \in Range(SUSPECTS)
         THEN [e.suspect_probs EXCEPT ![card] = 2 * @]
         ELSE e.suspect_probs,
     weapon_probs |->
         IF card \in Range(WEAPONS)
         THEN [e.weapon_probs EXCEPT ![card] = 2 * @]
         ELSE e.weapon_probs,
     room_probs |->
         IF card \in Range(ROOMS)
         THEN [e.room_probs EXCEPT ![card] = 2 * @]
         ELSE e.room_probs,
     known_cards |-> e.known_cards]

\* the body of the no-responder loop for one card: 1.0 for the card and 0.0
\* for every other card of its category
OneHot(e, card) ==
    [suspect_probs |->
         IF card \in Range(SUSPECTS)
         THEN [c \in Range(SUSPECTS) |-> IF c = card THEN One ELSE Zero]
         ELSE e.suspect_probs,
     weapon_probs |->
         IF card \in Range(WEAPONS)
         THEN [c \in Range(WEAPONS) |-> IF c = card THEN One ELSE Zero]
         ELSE e.weapon_probs,
     room_probs |->
         IF card \in Range(ROOMS)
         THEN [c \in Range(ROOMS) |-> IF c = card THEN One ELSE Zero]
         ELSE e.room_probs,
     known_cards |-> e.known_cards]

RECURSIVE OneHotAll(_, _, _)
\* for card in suggested_cards[:n]: one-hot its category
OneHotAll(e, suggested_cards, n) ==
    IF n = 0 THEN e
    ELSE OneHot(OneHotAll(e, suggested_cards, n - 1), suggested_cards[n])

\* EnvelopeProbabilityEngine._normalize_category
NormalizeCategory(probs, category) ==
    LET total == Sum(probs, category)
    IN  IF total > 0
        THEN [c \in Range(category) |-> Div(probs[c], total)]
        ELSE probs

\* the three trailing _normalize_category calls of update_probabilities
NormalizeAll(e) ==
    [suspect_probs |-> NormalizeCategory(e.suspect_probs, SUSPECTS),
     weapon_probs |-> NormalizeCategory(e.weapon_probs, WEAPONS),
     room_probs |-> NormalizeCategory(e.room_probs, ROOMS),
     known_cards |-> e.known_cards]

\* update_probabilities demoting the suggested cards when the responder's
\* card was not seen
UpdateDemotingUnseen(e, suggested_cards, responder, shown_card) ==
    IF responder # None /\ shown_card # None
    THEN NormalizeAll(DecreaseOthers(UpdateKnownCard(e, shown_card),
                                     suggested_cards, shown_card,
                                     Len(suggested_cards)))
    ELSE IF responder = None
    THEN NormalizeAll(OneHotAll(e, suggested_cards, Len(suggested_cards)))
    ELSE NormalizeAll(DecreaseOthers(e, suggested_cards, shown_card,
                                     Len(suggested_cards)))

\* EnvelopeProbabilityEngine.update_probabilities
update_probabilities(e, suggested_cards, responder, shown_card) ==
    IF responder # None /\ shown_card # None
    THEN NormalizeAll(DecreaseOthers(UpdateKnownCard(e, shown_card),
                                     suggested_cards, shown_card,
                                     Len(suggested_cards)))
    ELSE IF responder = None
    THEN NormalizeAll(OneHotAll(e, suggested_cards, Len(suggested_cards)))
    ELSE NormalizeAll(e)

\* max(probs.items(), key=lambda x: x[1])[0]: the first card, in the
\* category's order, whose probability is the largest
ArgMax(probs, category) ==
    LET best == CHOOSE i \in 1..Len(category) :
                  /\ \A j \in 1..Len(category) :
                        probs[category[j]] <= probs[category[i]]
                  /\ \A j \in 1..(i - 1) :
                        probs[category[j]] < probs[category[i]]
    IN  category[best]

\* max(probs.values())
MaxProb(probs, category) == probs[ArgMax(probs, category)]

\* EnvelopeProbabilityEngine.get_most_likely_solution
get_most_likely_solution(e) ==
    [Suspect |-> ArgMax(e.suspect_probs, SUSPECTS),
     Weapon |-> ArgMax(e.weapon_probs, WEAPONS),
     Room |-> ArgMax(e.room_probs, ROOMS)]

\* EnvelopeProbabilityEngine.is_solution_confident
is_solution_confident(e, threshold) ==
    /\ MaxProb(e.suspect_probs, SUSPECTS) > threshold
    /\ MaxProb(e.weapon_probs, WEAPONS) > threshold
    /\ MaxProb(e.room_probs, ROOMS) > threshold

\* the default threshold, 0.9
DefaultThreshold == (9 * Scale) \div 10

(***************************************************************************)
(* RuleBasedInferenceEngine: refutation counts per (player, card).  A      *)
(* value is a record: refutation_history, the counts (0 for a pair the     *)
(* defaultdict has no entry for); order, the pairs in the order the nested *)
(* dictionaries iterate them; computed, the increases apply_inference      *)
(* computed in its last run, each with the pair and the count it used.     *)
(***************************************************************************)
\* base_increase: float = 0.05
base_increase == Scale \div 20
\* growth_factor: float = 1.5
growth_factor == (3 * Scale) \div 2

\* RuleBasedInferenceEngine.__init__
RuleEngineInit ==
    [refutation_history |-> [p \in PlayerSet |-> [c \in Cards |-> 0]],
     order |-> << >>,
     computed |-> << >>]

\* position of the last pair of `player` in the iteration order, 0 if none
LastOf(order, player) ==
    LET own == {i \in 1..Len(order) : order[i][1] = player}
    IN  IF own = {} THEN 0 ELSE CHOOSE i \in own : \A j \in own : j <= i

\* a new key of the nested dictionaries: a new player goes last, a new card
\* of a player goes after that player's other cards
InsertPair(order, player, card) ==
    LET at == LastOf(order, player)
    IN  IF \E i \in 1..Len(order) : order[i] = <<player, card>> THEN order
        ELSE IF at = 0 THEN Append(order, <<player, card>>)
        ELSE SubSeq(order, 1, at) \o << <<player, card>> >>
                 \o SubSeq(order, at + 1, Len(order))

RECURSIVE RecordCards(_, _, _, _)
\* for card in suggested_cards: self.refutation_history[responder][card] += 1
RecordCards(r, responder, suggested_cards, n) ==
    IF n > Len(suggested_cards) THEN r
    ELSE LET card == suggested_cards[n]
         IN  RecordCards(
                 [r EXCEPT !.refutation_history[responder][card] = @ + 1,
                           !.order = InsertPair(@, responder, card)],
                 responder, suggested_cards, n + 1)

\* record_suggestion with the test `if responder:`, the shown card ignored:
\* the mutant that C21 is checked against
RecordAnyRefutation(r, suggester, suggested_cards, responder, shown_card) ==
    IF responder # None
    THEN RecordCards(r, responder, suggested_cards, 1)
    ELSE r

\* RuleBasedInferenceEngine.record_suggestion
record_suggestion(r, suggester, suggested_cards, responder, shown_card) ==
    IF responder # None /\ shown_card = None
    THEN RecordCards(r, responder, suggested_cards, 1)
    ELSE r

RECURSIVE Pow(_, _)
\* x ** n for a whole n >= 0
Pow(x, n) == IF n = 0 THEN One ELSE Mul(Pow(x, n - 1), x)

\* increase = self.base_increase * (self.growth_factor ** (count - 1))
Increase(count) == Mul(base_increase, Pow(growth_factor, count - 1))

\* apply_inference raises AttributeError at its first
\* self.tracker.increase_prob(...): PlayerCardTracker has no such method
ApplyRaises(r) == r.order # << >>

\* RuleBasedInferenceEngine.apply_inference: the loop computes the increase
\* of the first pair and the call of increase_prob then ends the run; with
\* an empty history the loop body never runs
apply_inference(r) ==
    [r EXCEPT !.computed =
        IF r.order = << >> THEN << >>
        ELSE LET player == r.order[1][1]
                 card == r.order[1][2]
                 count == r.refutation_history[player][card]
             IN  << [player |-> player, card |-> card, count |-> count,
                     increase |-> Increase(count)] >>]

(***************************************************************************)
(* ClueGameState: the ledger that owns the tracker and the engine.         *)
(***************************************************************************)
VARIABLES
    known_cards,          \* self.known_cards: player -> set of cards
    cannot_have,          \* self.cannot_have: player -> set of cards
    suggestions,          \* self.suggestions: the history, a sequence
    soft_beliefs,         \* self.soft_beliefs: player -> card -> number
    remainder_cards,      \* self.remainder_cards
    global_known_cards,   \* self.global_known_cards
    player_card_tracker,  \* self.player_card_tracker, a tracker value
    probability_engine,   \* self.probability_engine, an engine value
    rule_engine,          \* ClueGameManager's self.rule_engine
    last,                 \* the last call: its arguments and what it raised
    calls                 \* number of calls made so far

ledger_vars == <<known_cards, cannot_have, soft_beliefs, remainder_cards,
                 global_known_cards>>
vars == <<known_cards, cannot_have, suggestions, soft_beliefs, remainder_cards,
          global_known_cards, player_card_tracker, probability_engine,
          rule_engine, last, calls>>

\* ClueGameState.__init__
Init ==
    /\ known_cards = [p \in PlayerSet |-> {}]
    /\ cannot_have = [p \in PlayerSet |-> {}]
    /\ suggestions = << >>
    /\ soft_beliefs = [p \in PlayerSet |-> [c \in Cards |-> One]]
    /\ remainder_cards = {}
    /\ global_known_cards = {}
    /\ player_card_tracker = TrackerInit
    /\ probability_engine = EngineInit
    /\ rule_engine = RuleEngineInit
    /\ last = [op |-> "init", raised |-> "none"]
    /\ calls = 0

\* ClueGameState.calculate_remainder_cards
calculate_remainder_cards(num_players) ==
    Max(0, Len(all_cards) - 3 - num_players * 3)

RECURSIVE UpdateKnownCards(_, _)
\* for card in cards: self.probability_engine._update_known_card(card)
UpdateKnownCards(e, cards) ==
    IF cards = {} THEN e
    ELSE LET card == CHOOSE c \in cards : TRUE
         IN  UpdateKnownCards(UpdateKnownCard(e, card), cards \ {card})

\* ClueGameState.set_remainder_cards
set_remainder_cards(cards) ==
    /\ calls < MaxCalls
    /\ remainder_cards' = cards
    /\ global_known_cards' = global_known_cards \cup cards
    /\ probability_engine' = UpdateKnownCards(probability_engine, cards)
    /\ last' = [op |-> "set_remainder_cards", cards |-> cards,
                raised |-> "none"]
    /\ calls' = calls + 1
    /\ UNCHANGED <<known_cards, cannot_have, suggestions, soft_beliefs,
                   player_card_tracker, rule_engine>>

\* response_order = players[suggester_index + 1:] + players[:suggester_index]
ResponseOrder(suggester) ==
    LET suggester_index == Index(players, suggester) - 1
    IN  Slice(players, suggester_index + 1, Len(players))
            \o Slice(players, 0, suggester_index)

\* players_who_couldnt_respond = response_order[:responder_index]
PlayersWhoCouldntRespond(suggester, responder) ==
    LET response_order == ResponseOrder(suggester)
        responder_index == Index(response_order, responder) - 1
    IN  Slice(response_order, 0, responder_index)

\* which branch of the if/elif chain of add_suggestion is taken
Branch(suggester, responder, shown_card) ==
    IF responder = players[1] /\ shown_card # None THEN "you_showed"
    ELSE IF responder # None /\ shown_card # None /\ suggester = players[1]
    THEN "shown_to_you"
    ELSE IF responder # None THEN "couldnt_respond"
    ELSE "no_responder"

\* the exception add_suggestion ends with, "none" when it returns: the
\* tracker's index lookups, players.index(suggester),
\* self.known_cards[responder] and response_order.index(responder)
Raised(suggester, responder, shown_card) ==
    LET branch == Branch(suggester, responder, shown_card)
    IN  IF UpdateRaises(suggester, responder, shown_card, players)
        THEN "ValueError"
        ELSE IF suggester \notin PlayerSet THEN "ValueError"
        ELSE IF branch = "shown_to_you" /\ responder \notin PlayerSet
        THEN "KeyError"
        ELSE IF branch = "couldnt_respond"
                /\ responder \notin Range(ResponseOrder(suggester))
        THEN "ValueError"
        ELSE "none"

\* the two branches that record a shown card: it becomes a known card of the
\* responder and globally known, and the others' soft belief in it is zeroed
RecordShownCard(responder, shown_card) ==
    /\ known_cards' = [known_cards EXCEPT ![responder] = @ \cup {shown_card}]
    /\ global_known_cards' = global_known_cards \cup {shown_card}
    /\ soft_beliefs' = [p \in PlayerSet |->
                          IF p # responder
                          THEN [soft_beliefs[p] EXCEPT ![shown_card] = Zero]
                          ELSE soft_beliefs[p]]
    /\ UNCHANGED <<cannot_have, remainder_cards>>

\* the branch for a responder whose card the ledger does not record
RecordCouldntRespond(suggester, suggested_cards, responder) ==
    LET passed == Range(PlayersWhoCouldntRespond(suggester, responder))
    IN  /\ cannot_have' = [p \in PlayerSet |->
                             IF p \in passed
                             THEN cannot_have[p] \cup Range(suggested_cards)
                             ELSE cannot_have[p]]
        /\ soft_beliefs' =
              [soft_beliefs EXCEPT ![responder] =
                  [c \in Cards |->
                     IF c \in Range(suggested_cards)
                        /\ c \notin known_cards[responder]
                     THEN soft_beliefs[responder][c] + Scale \div 10
                     ELSE soft_beliefs[responder][c]]]
        /\ UNCHANGED <<known_cards, global_known_cards, remainder_cards>>

\* suggestion = Suggestion(timestamp=datetime.now(), ...): the time of the
\* call is its number
NewSuggestion(timestamp, suggester, suspect, weapon, room, responder, shown_card) ==
    [timestamp |-> timestamp, suggester |-> suggester, suspect |-> suspect,
     weapon |-> weapon, room |-> room, responder |-> responder,
     shown_card |-> shown_card]

\* AppendSuggestion as self.suggestions.insert(0, suggestion): the mutant
\* that C14 is checked against
InsertSuggestionFirst(history, suggestion) == <<suggestion>> \o history

\* self.suggestions.append(suggestion)
AppendSuggestion(history, suggestion) == Append(history, suggestion)

\* ClueGameState.add_suggestion.  The history is appended and the tracker
\* updated before anything can raise in the ledger; a raise leaves the rest
\* as it was.
add_suggestion(suggester, suspect, weapon, room, responder, shown_card) ==
    LET suggested_cards == <<suspect, weapon, room>>
        raised == Raised(suggester, responder, shown_card)
        branch == Branch(suggester, responder, shown_card)
        shown == branch \in {"you_showed", "shown_to_you"}
    IN  /\ calls < MaxCalls
        /\ suggestions' =
              AppendSuggestion(suggestions,
                               NewSuggestion(calls + 1, suggester, suspect,
                                             weapon, room, responder,
                                             shown_card))
        /\ player_card_tracker' =
              update_from_suggestion(player_card_tracker, suggested_cards,
                                     suggester, responder, shown_card, players)
        /\ IF raised # "none"
           THEN UNCHANGED <<ledger_vars, probability_engine>>
           ELSE /\ IF shown THEN RecordShownCard(responder, shown_card)
                   ELSE IF branch = "couldnt_respond"
                   THEN RecordCouldntRespond(suggester, suggested_cards, responder)
                   ELSE UNCHANGED ledger_vars
                /\ probability_engine' =
                      update_probabilities(
                          IF shown
                          THEN UpdateKnownCard(probability_engine, shown_card)
                          ELSE probability_engine,
                          suggested_cards, responder, shown_card)
        /\ last' = [op |-> "add_suggestion", suggester |-> suggester,
                    suspect |-> suspect, weapon |-> weapon, room |-> room,
                    responder |-> responder, shown_card |-> shown_card,
                    raised |-> raised]
        /\ calls' = calls + 1
        /\ UNCHANGED rule_engine

(***************************************************************************)
(* The calls a behaviour draws from.                                       *)
(***************************************************************************)
\* the cards a suggestion names
SuspectInputs == {"Scarlett"}
WeaponInputs == {"Rope"}
RoomInputs == {"Kitchen"}
\* a card of the deck that no suggestion names
Unsuggested == "Plum"
\* nothing shown, the suggested suspect, or a card that was not suggested
ShownInputs(suspect) == {None, suspect, Unsuggested}
\* <<suggester, responder>>: every pair of players, a player with no
\* responder, and pairs that name somebody who is not in the game
WhoInputs ==
    (PlayerSet \X (PlayerSet \cup {None}))
        \cup {<<Stranger, None>>, <<Stranger, "A">>,
              <<"You", Stranger>>, <<"A", Stranger>>}
\* face-up remainder cards as the set-up page lets the user pick them: any
\* calculate_remainder_cards(len(players)) cards of the deck
RemainderInputs ==
    {Range(SUSPECTS) \cup {"Candlestick", "Knife", "LeadPipe"},
     {"Mustard", "White", "Candlestick", "Knife", "LeadPipe",
      "Ballroom", "Conservatory", "DiningRoom", "BilliardRoom"}}

SetRemainderCards == \E cards \in RemainderInputs : set_remainder_cards(cards)

AddSuggestion ==
    \E who \in WhoInputs, suspect \in SuspectInputs, weapon \in WeaponInputs,
       room \in RoomInputs :
        \E shown_card \in ShownInputs(suspect) :
            add_suggestion(who[1], suspect, weapon, room, who[2], shown_card)

Next == SetRemainderCards \/ AddSuggestion

Spec == Init /\ [][Next]_vars

(***************************************************************************)
(* PlayerCardTracker driven directly through its own methods.              *)
(***************************************************************************)
\* the cards mark_known_card is called with
MarkInputs == {"Scarlett", "Rope", "Plum"}

TrackerUpdate ==
    \E who \in WhoInputs, suspect \in SuspectInputs, weapon \in WeaponInputs,
       room \in RoomInputs :
        \E shown_card \in ShownInputs(suspect) :
            /\ calls < MaxCalls
            /\ player_card_tracker' =
                  update_from_suggestion(player_card_tracker,
                                         <<suspect, weapon, room>>, who[1],
                                         who[2], shown_card, players)
            /\ last' = [op |-> "update_from_suggestion",
                        suggester |-> who[1], suspect |-> suspect,
                        weapon |-> weapon, room |-> room,
                        responder |-> who[2], shown_card |-> shown_card,
                        raised |-> IF UpdateRaises(who[1], who[2], shown_card,
                                                   players)
                                   THEN "ValueError" ELSE "none"]
            /\ calls' = calls + 1
            /\ UNCHANGED <<ledger_vars, suggestions, probability_engine,
                           rule_engine>>

TrackerMarkKnownCard ==
    \E player \in PlayerSet, card \in MarkInputs :
        /\ calls < MaxCalls
        /\ player_card_tracker' =
              mark_known_card(player_card_tracker, player, card)
        /\ last' = [op |-> "mark_known_card", player |-> player,
                    card |-> card, raised |-> "none"]
        /\ calls' = calls + 1
        /\ UNCHANGED <<ledger_vars, suggestions, probability_engine,
                       rule_engine>>

NextTracker == TrackerUpdate \/ TrackerMarkKnownCard

SpecTracker == Init /\ [][NextTracker]_vars

(***************************************************************************)
(* The ledger driven as the page (app.py) drives it: the remainder cards   *)
(* are set once, and the suggestion form offers the players as suggester,  *)
(* the cards that are not remainder cards, "None" or a player other than   *)
(* the suggester as responder, and "Unknown" or a suggested card as the    *)
(* shown card of a responder.                                              *)
(***************************************************************************)
GameSuspects == {"Scarlett", "Plum"}
GameWeapons == {"Rope"}
GameRooms == {"Kitchen"}
\* "Unknown", the suggested suspect or the suggested weapon
GameShown(suspect, weapon) == {None, suspect, weapon}

GameSetRemainderCards ==
    /\ remainder_cards = {}
    /\ \E cards \in RemainderInputs :
          /\ Cardinality(cards) = calculate_remainder_cards(Len(players))
          /\ set_remainder_cards(cards)

GameSuggestion ==
    \E suggester \in PlayerSet, suspect \in GameSuspects \ remainder_cards,
       weapon \in GameWeapons \ remainder_cards,
       room \in GameRooms \ remainder_cards :
        \E responder \in (PlayerSet \ {suggester}) \cup {None} :
            \E shown_card \in IF responder = None THEN {None}
                              ELSE GameShown(suspect, weapon) :
                add_suggestion(suggester, suspect, weapon, room, responder,
                               shown_card)

NextGame == GameSetRemainderCards \/ GameSuggestion

SpecGame == Init /\ [][NextGame]_vars

(***************************************************************************)
(* ClueGameManager: the ledger with the rule engine.  Its add_suggestion   *)
(* is ClueGameState's with record_suggestion and apply_inference called    *)
(* between the tracker update and the ledger branches.                     *)
(***************************************************************************)
\* the exception ClueGameManager.add_suggestion ends with
ManagerRaised(suggester, suggested_cards, responder, shown_card) ==
    IF UpdateRaises(suggester, responder, shown_card, players)
    THEN "ValueError"
    ELSE IF ApplyRaises(record_suggestion(rule_engine, suggester,
                                          suggested_cards, responder,
                                          shown_card))
    THEN "AttributeError"
    ELSE Raised(suggester, responder, shown_card)

\* ClueGameManager.add_suggestion
manager_add_suggestion(suggester, suspect, weapon, room, responder, shown_card) ==
    LET suggested_cards == <<suspect, weapon, room>>
        raised == ManagerRaised(suggester, suggested_cards, responder,
                                shown_card)
        tracker_raised == UpdateRaises(suggester, responder, shown_card,
                                       players)
        branch == Branch(suggester, responder, shown_card)
        shown == branch \in {"you_showed", "shown_to_you"}
    IN  /\ calls < MaxManagerCalls
        /\ suggestions' =
              AppendSuggestion(suggestions,
                               NewSuggestion(calls + 1, suggester, suspect,
                                             weapon, room, responder,
                                             shown_card))
        /\ player_card_tracker' =
              update_from_suggestion(player_card_tracker, suggested_cards,
                                     suggester, responder, shown_card, players)
        /\ rule_engine' =
              IF tracker_raised THEN rule_engine
              ELSE apply_inference(
                       record_suggestion(rule_engine, suggester,
                                         suggested_cards, responder,
                                         shown_card))
        /\ IF raised # "none"
           THEN UNCHANGED <<ledger_vars, probability_engine>>
           ELSE /\ IF shown THEN RecordShownCard(responder, shown_card)
                   ELSE IF branch = "couldnt_respond"
                   THEN RecordCouldntRespond(suggester, suggested_cards, responder)
                   ELSE UNCHANGED ledger_vars
                /\ probability_engine' =
                      update_probabilities(
                          IF shown
                          THEN UpdateKnownCard(probability_engine, shown_card)
                          ELSE probability_engine,
                          suggested_cards, responder, shown_card)
        /\ last' = [op |-> "add_suggestion", suggester |-> suggester,
                    suspect |-> suspect, weapon |-> weapon, room |-> room,
                    responder |-> responder, shown_card |-> shown_card,
                    raised |-> raised,
                    recorded |-> ~tracker_raised /\ responder # None
                                     /\ shown_card = None,
                    applied |-> ~tracker_raised]
        /\ calls' = calls + 1

\* the suggestions the manager is called with: the players as suggester,
\* another player or nobody as responder, the card unknown or the suspect
ManagerSuggestion ==
    \E suggester \in PlayerSet, suspect \in (SuspectInputs \ remainder_cards),
       weapon \in (WeaponInputs \ remainder_cards),
       room \in (RoomInputs \ remainder_cards) :
        \E responder \in (PlayerSet \ {suggester}) \cup {None} :
            \E shown_card \in IF responder = None THEN {None}
                              ELSE {None, suspect} :
                manager_add_suggestion(suggester, suspect, weapon, room,
                                       responder, shown_card)

\* ClueGameManager.set_remainder_cards, the same code as ClueGameState's
ManagerSetRemainderCards ==
    /\ remainder_cards = {}
    /\ \E cards \in RemainderInputs : set_remainder_cards(cards)

NextManager == ManagerSetRemainderCards \/ ManagerSuggestion

SpecManager == Init /\ [][NextManager]_vars

(***************************************************************************)
(* The queries.  A call of a query is modelled by the object after the     *)
(* call and the value returned; the result is kept in `last`.              *)
(***************************************************************************)
RECURSIVE SortedDescending(_, _)
\* sorted(items, key=lambda x: x[1], reverse=True): the sort is stable, so
\* cards of equal probability keep the order of `cards`
SortedDescending(probs, cards) ==
    IF cards = << >> THEN << >>
    ELSE LET first == CHOOSE i \in 1..Len(cards) :
                         /\ \A j \in 1..Len(cards) :
                               probs[cards[j]] <= probs[cards[i]]
                         /\ \A j \in 1..(i - 1) :
                               probs[cards[j]] < probs[cards[i]]
         IN  << <<cards[first], probs[cards[first]]>> >>
                 \o SortedDescending(probs,
                        SubSeq(cards, 1, first - 1)
                            \o SubSeq(cards, first + 1, Len(cards)))

\* PlayerCardTracker.get_most_likely_cards
get_most_likely_cards(t, player, n) ==
    Slice(SortedDescending(t.player_card_probs[player], all_cards), 0, n)

\* PlayerCardTracker.get_high_probability_cards
get_high_probability_cards(t, player, threshold) ==
    SortedDescending(t.player_card_probs[player],
                     SelectSeq(all_cards,
                               LAMBDA c : t.player_card_probs[player][c]
                                              >= threshold))

\* the tracker's queries
TrackerQueries ==
    {"get_prob_matrix", "get_envelope_probabilities",
     "get_player_card_probability", "get_most_likely_cards",
     "get_high_probability_cards", "get_cannot_have_cards"}

\* TrackerQuery with the getters calling _normalize_probabilities before
\* they read the matrix: the mutant that C13 is checked against
TrackerQueryNormalizing(t, query, player, card) ==
    LET n == Normalized(t)
    IN  [self |-> n,
         result |->
            CASE query = "get_prob_matrix" -> n.player_card_probs
              [] query = "get_envelope_probabilities" ->
                    get_envelope_probabilities(n)
              [] query = "get_player_card_probability" ->
                    n.player_card_probs[player][card]
              [] query = "get_most_likely_cards" ->
                    get_most_likely_cards(n, player, 3)
              [] query = "get_high_probability_cards" ->
                    get_high_probability_cards(n, player, DefaultThreshold)
              [] query = "get_cannot_have_cards" -> n.cannot_have[player]]

\* a query of the tracker: none of them assigns to a field
TrackerQuery(t, query, player, card) ==
    [self |-> t,
     result |->
        CASE query = "get_prob_matrix" -> t.player_card_probs
          [] query = "get_envelope_probabilities" ->
                get_envelope_probabilities(t)
          [] query = "get_player_card_probability" ->
                t.player_card_probs[player][card]
          [] query = "get_most_likely_cards" ->
                get_most_likely_cards(t, player, 3)
          [] query = "get_high_probability_cards" ->
                get_high_probability_cards(t, player, DefaultThreshold)
          [] query = "get_cannot_have_cards" -> t.cannot_have[player]]

\* the engine's queries
EngineQueries ==
    {"get_solution_probabilities", "get_most_likely_solution",
     "is_solution_confident"}

\* a query of the envelope engine
EngineQuery(e, query) ==
    [self |-> e,
     result |->
        CASE query = "get_solution_probabilities" ->
                [Suspects |-> e.suspect_probs, Weapons |-> e.weapon_probs,
                 Rooms |-> e.room_probs]
          [] query = "get_most_likely_solution" ->
                get_most_likely_solution(e)
          [] query = "is_solution_confident" ->
                is_solution_confident(e, DefaultThreshold)]

\* the ledger's own queries
LedgerQueries ==
    {"get_player_cards", "get_suggestions", "get_global_known_cards"}

\* the player and the card the queries are asked about
QueryPlayers == {"A"}
QueryCards == {"Scarlett"}

\* a query may follow itself once: the claims compare two calls in a row
MayQuery(query) == IF last.op = query THEN last.nth = 1 ELSE TRUE
Nth(query) == IF last.op = query THEN 2 ELSE 1

TrackerQueryStep ==
    \E query \in TrackerQueries, player \in QueryPlayers,
       card \in QueryCards :
        LET q == TrackerQuery(player_card_tracker, query, player, card)
        IN  /\ MayQuery(query)
            /\ player_card_tracker' = q.self
            /\ last' = [op |-> query, player |-> player, card |-> card,
                        result |-> q.result, raised |-> "none",
                        nth |-> Nth(query)]
            /\ UNCHANGED <<ledger_vars, suggestions, probability_engine,
                           rule_engine, calls>>

EngineQueryStep ==
    \E query \in EngineQueries :
        LET q == EngineQuery(probability_engine, query)
        IN  /\ MayQuery(query)
            /\ probability_engine' = q.self
            /\ last' = [op |-> query, result |-> q.result,
                        raised |-> "none", nth |-> Nth(query)]
            /\ UNCHANGED <<ledger_vars, suggestions, player_card_tracker,
                           rule_engine, calls>>

\* ClueGameState.get_player_cards, get_suggestions, get_global_known_cards
LedgerQueryStep ==
    \E query \in LedgerQueries, player \in QueryPlayers :
        /\ MayQuery(query)
        /\ last' = [op |-> query, player |-> player,
                    result |->
                       CASE query = "get_player_cards" ->
                               <<known_cards[player], cannot_have[player]>>
                         [] query = "get_suggestions" -> suggestions
                         [] query = "get_global_known_cards" ->
                               global_known_cards,
                    raised |-> "none", nth |-> Nth(query)]
        /\ UNCHANGED <<ledger_vars, suggestions, player_card_tracker,
                       probability_engine, rule_engine, calls>>

\* the suggestions made between the queries: suggester, responder, shown
\* card
QueriedInputs ==
    {<<"You", "A", "Scarlett">>, <<"You", "B", None>>, <<"A", None, None>>,
     <<"B", "A", None>>}

QueriedSuggestion ==
    \E call \in QueriedInputs, suspect \in SuspectInputs,
       weapon \in WeaponInputs, room \in RoomInputs :
        add_suggestion(call[1], suspect, weapon, room, call[2], call[3])

NextQuery ==
    \/ GameSetRemainderCards
    \/ QueriedSuggestion
    \/ TrackerQueryStep
    \/ EngineQueryStep
    \/ LedgerQueryStep

SpecQuery == Init /\ [][NextQuery]_vars

(***************************************************************************)
(* Vocabulary of the properties.                                           *)
(***************************************************************************)
Abs(x) == IF x < 0 THEN -x ELSE x

\* the three suggested cards of a recorded call
SuggestedOf(call) == {call.suspect, call.weapon, call.room}

\* the last call was add_suggestion / it returned without raising
LastIsSuggestion == last.op = "add_suggestion"
LastReturned == last.raised = "none"

\* a suggestion as section 4.1 validates it: known players, responder other
\* than the suggester, a shown card only with a responder and only one of
\* the three suggested cards
ValidSuggestion(call) ==
    /\ call.suggester \in PlayerSet
    /\ call.responder \in PlayerSet \cup {None}
    /\ call.responder # call.suggester
    /\ call.shown_card # None =>
          /\ call.responder # None
          /\ call.shown_card \in SuggestedOf(call)

\* the state a rejected call must leave alone
EngineState == <<suggestions, ledger_vars, player_card_tracker,
                 probability_engine>>

\* the players strictly between suggester and responder, clockwise
StrictlyBetween(suggester, responder) ==
    LET n == Len(players)
        s == Index(players, suggester)
        r == Index(players, responder)
    IN  {players[i] : i \in {j \in 1..n :
                                /\ (j - s) % n >= 1
                                /\ (j - s) % n < (r - s) % n}}

\* sum(probs[player][card] for card not in known_cards[player])
UnknownTotal(t, player) ==
    Sum([c \in Cards |-> IF c \in t.known_cards[player] THEN 0
                         ELSE t.player_card_probs[player][c]], all_cards)

(***************************************************************************)
(* C1.  Every category distribution of the envelope engine sums to 1 in    *)
(* every state reachable by set_remainder_cards and add_suggestion calls.  *)
(* Fails: once every card of a category is known, the category is all 0.0  *)
(* and _normalize_category skips it.                                       *)
(***************************************************************************)
C1_CategorySumsToOne ==
    /\ Abs(Sum(probability_engine.suspect_probs, SUSPECTS) - One) <= Eps
    /\ Abs(Sum(probability_engine.weapon_probs, WEAPONS) - One) <= Eps
    /\ Abs(Sum(probability_engine.room_probs, ROOMS) - One) <= Eps

\* the state that refutes C1: all six suspects known, every suspect at 0.0
C1_AllSuspectsKnown ==
    /\ Range(SUSPECTS) \subseteq probability_engine.known_cards
    /\ Sum(probability_engine.suspect_probs, SUSPECTS) = 0

(***************************************************************************)
(* C2.  For every card the players' matrix entries sum to at most 1, and   *)
(* that sum plus get_envelope_probabilities()[card] is 1, in every state   *)
(* of the tracker.                                                         *)
(***************************************************************************)
C2_CardTotalAndEnvelope ==
    \A c \in Cards :
        LET total == CardTotal(player_card_tracker.player_card_probs, c)
        IN  /\ total <= One + Eps
            /\ Abs(total + get_envelope_probabilities(player_card_tracker)[c]
                   - One) <= Eps

\* an update has left a card with a players' total well below 1 and so with
\* a positive envelope probability
C2_Witness ==
    /\ last.op \in {"update_from_suggestion", "mark_known_card"}
    /\ last.raised = "none"
    /\ \E c \in Cards :
          /\ CardTotal(player_card_tracker.player_card_probs, c) > 0
          /\ get_envelope_probabilities(player_card_tracker)[c] > Eps

(***************************************************************************)
(* C3.  A card in a player's known set is pinned: the player's entry is 1  *)
(* and every other player's entry is 0, in every later state.  (Known sets *)
(* never lose a card, so "every later state" is every state where the card *)
(* is known.)  Fails: a second responder shown with the same card, or a    *)
(* player who passed, overwrites the entry of the player who knows it.     *)
(***************************************************************************)
C3_KnownCardsPinned ==
    \A p \in PlayerSet :
        \A c \in player_card_tracker.known_cards[p] :
            /\ player_card_tracker.player_card_probs[p][c] = One
            /\ \A q \in PlayerSet \ {p} :
                  player_card_tracker.player_card_probs[q][c] = Zero

(***************************************************************************)
(* C4.  For every player the entries of the cards not in the player's      *)
(* known set sum to at most the hand size, in every state of the tracker,  *)
(* the freshly constructed one included.  Fails in the constructed state:  *)
(* 21 cards at 1/3 each are 7 > 3, and __init__ does not normalise.        *)
(***************************************************************************)
C4_HandCapacity ==
    \A p \in PlayerSet :
        UnknownTotal(player_card_tracker, p) <= hand_sizes[p] + Eps

(***************************************************************************)
(* C5.  add_suggestion with a suggester or responder that is not a player  *)
(* is rejected and leaves the whole engine state unchanged.  Fails: the    *)
(* history is appended, and in some cases the tracker updated, before the  *)
(* lookup of the unknown name raises.                                      *)
(***************************************************************************)
C5_UnknownPlayerRejected ==
    [][(/\ last'.op = "add_suggestion"
        /\ calls' = calls + 1
        /\ \/ last'.suggester \notin PlayerSet
           \/ last'.responder \notin PlayerSet \cup {None})
       => (last'.raised # "none" /\ UNCHANGED EngineState)]_vars

(***************************************************************************)
(* C6.  add_suggestion is rejected with no state change when responder =   *)
(* suggester, when the shown card is not one of the suggested cards, or    *)
(* when a card is shown without a responder.  Fails: nothing validates.    *)
(***************************************************************************)
C6_InconsistentSuggestionRejected ==
    [][(/\ last'.op = "add_suggestion"
        /\ calls' = calls + 1
        /\ \/ last'.responder = last'.suggester
           \/ /\ last'.shown_card # None
              /\ last'.shown_card \notin SuggestedOf(last')
           \/ /\ last'.shown_card # None
              /\ last'.responder = None)
       => (last'.raised # "none" /\ UNCHANGED EngineState)]_vars

(***************************************************************************)
(* C7.  Right after an add_suggestion with no responder that returned,     *)
(* every category is one-hot on the suggested card, the most likely        *)
(* solution is the suggestion, and is_solution_confident(0.9) is true.     *)
(***************************************************************************)
C7_NoResponderOneHot ==
    (LastIsSuggestion /\ LastReturned /\ last.responder = None) =>
        /\ \A c \in Range(SUSPECTS) :
              probability_engine.suspect_probs[c] =
                  IF c = last.suspect THEN One ELSE Zero
        /\ \A c \in Range(WEAPONS) :
              probability_engine.weapon_probs[c] =
                  IF c = last.weapon THEN One ELSE Zero
        /\ \A c \in Range(ROOMS) :
              probability_engine.room_probs[c] =
                  IF c = last.room THEN One ELSE Zero
        /\ get_most_likely_solution(probability_engine) =
              [Suspect |-> last.suspect, Weapon |-> last.weapon,
               Room |-> last.room]
        /\ is_solution_confident(probability_engine, DefaultThreshold)

\* a no-responder suggestion recorded when its suspect was already a known
\* card at probability 0 and the suspects were not uniform
C7_Witness ==
    /\ LastIsSuggestion /\ LastReturned /\ last.responder = None
    /\ last.suspect \in probability_engine.known_cards
    /\ Len(suggestions) = 2

(***************************************************************************)
(* C8.  After an add_suggestion with no responder, every player's          *)
(* cannot-have set of get_player_cards holds the three suggested cards.    *)
(* Fails: the ledger's if/elif chain has no branch for responder None.     *)
(***************************************************************************)
C8_NoResponderCannotHave ==
    (LastIsSuggestion /\ LastReturned /\ ValidSuggestion(last)
        /\ last.responder = None) =>
        \A p \in PlayerSet : SuggestedOf(last) \subseteq cannot_have[p]

(***************************************************************************)
(* C9.  After an add_suggestion with a responder and a shown card, whoever *)
(* the suggester is, the shown card is in the ledger's known cards of the  *)
(* responder and globally known.  Fails when neither the suggester nor the *)
(* responder is players[0]: the ledger takes the unknown-card branch.      *)
(***************************************************************************)
C9_ShownCardKnown ==
    (LastIsSuggestion /\ LastReturned /\ ValidSuggestion(last)
        /\ last.responder # None /\ last.shown_card # None) =>
        /\ last.shown_card \in known_cards[last.responder]
        /\ last.shown_card \in global_known_cards

(***************************************************************************)
(* C10.  After a suggestion with a responder and unknown shown card, every *)
(* player strictly between suggester and responder clockwise (wrap-around  *)
(* included) has the three cards in the ledger's and the tracker's         *)
(* cannot-have set and at 0 in the matrix, and no other player gains a     *)
(* cannot-have card.  Fails: the tracker's slice ends at the end of the    *)
(* players list, so players before the responder in the list are missed.   *)
(***************************************************************************)
C10_PassedPlayersExcluded ==
    [][(/\ last'.op = "add_suggestion"
        /\ calls' = calls + 1
        /\ last'.raised = "none"
        /\ ValidSuggestion(last')
        /\ last'.responder # None
        /\ last'.shown_card = None)
       => \A p \in PlayerSet :
            IF p \in StrictlyBetween(last'.suggester, last'.responder)
            THEN /\ SuggestedOf(last') \subseteq cannot_have'[p]
                 /\ SuggestedOf(last') \subseteq
                        player_card_tracker'.cannot_have[p]
                 /\ \A c \in SuggestedOf(last') :
                        player_card_tracker'.player_card_probs[p][c] = Zero
            ELSE /\ cannot_have'[p] = cannot_have[p]
                 /\ player_card_tracker'.cannot_have[p] =
                        player_card_tracker.cannot_have[p]]_vars

\* a suggestion whose responder showed a card the caller did not see
RefutationEligible(call) == call.responder # None /\ call.shown_card = None

(***************************************************************************)
(* C11.  On ClueGameManager every valid suggestion with a responder and an *)
(* unknown shown card returns without an exception and with every          *)
(* sub-update applied: the ledger's cannot-have sets of the players who    *)
(* passed hold the suggested cards and the category model has demoted them.*)
(***************************************************************************)
C11_RefutationFullyApplied ==
    (LastIsSuggestion /\ ValidSuggestion(last) /\ RefutationEligible(last)) =>
        /\ last.raised = "none"
        /\ \A p \in StrictlyBetween(last.suggester, last.responder) :
              SuggestedOf(last) \subseteq cannot_have[p]
        /\ rule_engine.refutation_history[last.responder][last.suspect] >= 1

(***************************************************************************)
(* C12.  On ClueGameManager apply_inference runs in exactly the            *)
(* add_suggestion calls that have a responder and an unknown shown card;   *)
(* in a call with a known shown card or without responder it does not run  *)
(* and computes no increase from earlier counts.                           *)
(***************************************************************************)
C12_ApplyOncePerRefutation ==
    (LastIsSuggestion /\ ValidSuggestion(last)) =>
        /\ last.applied <=> RefutationEligible(last)
        /\ ~RefutationEligible(last) => rule_engine.computed = << >>

\* every recorded suggestion is the last call's: same suggester, cards and
\* responder, the shown card unknown
SameRefutationRepeated ==
    \A i \in 1..Len(suggestions) :
        /\ suggestions[i].suggester = last.suggester
        /\ SuggestedOf(suggestions[i]) = SuggestedOf(last)
        /\ suggestions[i].responder = last.responder
        /\ suggestions[i].shown_card = None

\* base_increase * growth_factor^(k-1) for the default 0.05 and 1.5, in
\* units of 1/Scale: 0.05, 0.075, 0.1125, ...
ExpectedIncrease(k) == (Scale * 3^(k - 1)) \div (20 * 2^(k - 1))

\* the increases apply_inference computed for a pair in its last run
ComputedFor(player, card) ==
    {rule_engine.computed[i].increase :
        i \in {j \in 1..Len(rule_engine.computed) :
                  /\ rule_engine.computed[j].player = player
                  /\ rule_engine.computed[j].card = card}}

(***************************************************************************)
(* C16.  When the same responder refutes the same three cards with an      *)
(* unknown shown card in k successive suggestions, the increase that       *)
(* apply_inference computes at the k-th for each of the three (player,     *)
(* card) pairs is base_increase * growth_factor^(k-1): 0.05, 0.075, 0.1125 *)
(* for k = 1, 2, 3.                                                        *)
(***************************************************************************)
C16_IncreaseGrowsGeometrically ==
    (LastIsSuggestion /\ ValidSuggestion(last) /\ RefutationEligible(last)
       /\ SameRefutationRepeated) =>
        \A c \in SuggestedOf(last) :
            ComputedFor(last.responder, c) =
                {ExpectedIncrease(Len(suggestions))}

\* the part of C16 the code does reach: the first recorded pair at k = 3
C16_FirstPairAtThree ==
    /\ LastIsSuggestion /\ RefutationEligible(last) /\ SameRefutationRepeated
    /\ Len(suggestions) = 3
    /\ ComputedFor(last.responder, last.suspect) = {ExpectedIncrease(3)}
    /\ ExpectedIncrease(3) = (1125 * Scale) \div 10000

\* the last call was a query
IsQuery(op) == op \in TrackerQueries \cup EngineQueries \cup LedgerQueries

(***************************************************************************)
(* C13.  A query leaves the engine state as it was (history, ledger sets,  *)
(* matrix with its known and cannot-have sets, category distributions,     *)
(* refutation counts), and a query called twice in a row returns the same  *)
(* result.                                                                 *)
(***************************************************************************)
C13_QueriesArePure ==
    [][IsQuery(last'.op) =>
          /\ EngineState' = EngineState
          /\ rule_engine' = rule_engine
          /\ last.op = last'.op => last'.result = last.result]_vars

\* the same query asked a second time after a suggestion changed the matrix
C13_Witness ==
    /\ last.op = "get_most_likely_cards"
    /\ last.nth = 2
    /\ Len(suggestions) = 2
    /\ player_card_tracker.player_card_probs # TrackerInit.player_card_probs

\* the history entry of the last call, the timestamp aside
EntryOf(call) ==
    [suggester |-> call.suggester, suspect |-> call.suspect,
     weapon |-> call.weapon, room |-> call.room,
     responder |-> call.responder, shown_card |-> call.shown_card]
WithoutTimestamp(entry) ==
    [suggester |-> entry.suggester, suspect |-> entry.suspect,
     weapon |-> entry.weapon, room |-> entry.room,
     responder |-> entry.responder, shown_card |-> entry.shown_card]

(***************************************************************************)
(* C14.  The history is an append-only log: every step keeps the earlier   *)
(* entries with their content and order, an add_suggestion that returns    *)
(* makes it longer by exactly one entry, the last, which holds the call's  *)
(* suggester, cards, responder and shown card, and no other call changes   *)
(* it.                                                                     *)
(***************************************************************************)
C14_HistoryAppendOnly ==
    [][/\ Len(suggestions') >= Len(suggestions)
       /\ SubSeq(suggestions', 1, Len(suggestions)) = suggestions
       /\ (last'.op = "add_suggestion" /\ last'.raised = "none") =>
             /\ Len(suggestions') = Len(suggestions) + 1
             /\ WithoutTimestamp(suggestions'[Len(suggestions')])
                    = EntryOf(last')
       /\ last'.op # "add_suggestion" => suggestions' = suggestions]_vars

\* two accepted suggestions of different outcome, in the order of the calls
C14_Witness ==
    /\ LastIsSuggestion /\ LastReturned
    /\ Len(suggestions) = 2
    /\ suggestions[1].responder # suggestions[2].responder
    /\ WithoutTimestamp(suggestions[2]) = EntryOf(last)

\* the solution probability the engine holds for a card
SolutionProb(e, card) ==
    IF card \in Range(SUSPECTS) THEN e.suspect_probs[card]
    ELSE IF card \in Range(WEAPONS) THEN e.weapon_probs[card]
    ELSE e.room_probs[card]

(***************************************************************************)
(* C15.  Every card the envelope engine has marked known (a shown card, a  *)
(* remainder card) has solution probability 0, in every state, whatever    *)
(* suggestions are recorded after it became known.                         *)
(***************************************************************************)
C15_KnownCardsStayZero ==
    \A c \in probability_engine.known_cards :
        SolutionProb(probability_engine, c) = Zero

\* the cards of the category of a card
CategoryOf(card) ==
    IF card \in Range(SUSPECTS) THEN Range(SUSPECTS)
    ELSE IF card \in Range(WEAPONS) THEN Range(WEAPONS)
    ELSE Range(ROOMS)

\* the last call had a responder who showed a card the engine did not know
\* yet (to be read in the state after the call, with the engine before it)
NewlyShown(call, engine_before) ==
    /\ call.op = "add_suggestion" /\ call.raised = "none"
    /\ call.responder # None /\ call.shown_card # None
    /\ call.shown_card \notin engine_before.known_cards

(***************************************************************************)
(* C17.  When a shown card becomes known, its probability becomes 0 and    *)
(* every card of its category that is still unknown gains the same share   *)
(* of the freed mass: new = old + freed / (number of unknown cards left),  *)
(* so the differences between those cards stay as they were.               *)
(***************************************************************************)
C17_FreedMassSharedEqually ==
    [][NewlyShown(last', probability_engine) =>
          LET card == last'.shown_card
              remaining == CategoryOf(card)
                               \ probability_engine'.known_cards
              freed == SolutionProb(probability_engine, card)
          IN  /\ SolutionProb(probability_engine', card) = Zero
              /\ \A c \in remaining :
                    Abs(SolutionProb(probability_engine', c)
                        - (SolutionProb(probability_engine, c)
                           + DivN(freed, Cardinality(remaining)))) <= Eps
       ]_vars

\* the sum of the category of a card in an engine
CategorySum(e, card) ==
    IF card \in Range(SUSPECTS) THEN Sum(e.suspect_probs, SUSPECTS)
    ELSE IF card \in Range(WEAPONS) THEN Sum(e.weapon_probs, WEAPONS)
    ELSE Sum(e.room_probs, ROOMS)

\* the last call is a valid suggestion whose responder showed a known card
KnownCardShown(call) ==
    /\ call.op = "add_suggestion" /\ call.raised = "none"
    /\ ValidSuggestion(call)
    /\ call.responder # None /\ call.shown_card # None

(***************************************************************************)
(* C18.  After a suggestion with a responder and a known shown card, each  *)
(* of the two suggested cards that were not shown has been multiplied by   *)
(* 0.5 and its category renormalised: with prior p(c) in a category that   *)
(* summed to 1 the card has 0.5*p(c) / (1 - 0.5*p(c)) and every sibling d  *)
(* has p(d) / (1 - 0.5*p(c)).                                              *)
(***************************************************************************)
C18_NotShownCardsHalved ==
    [][KnownCardShown(last') =>
          \A c \in SuggestedOf(last') \ {last'.shown_card} :
              LET p(d) == SolutionProb(probability_engine, d)
                  new(d) == SolutionProb(probability_engine', d)
                  half == Mul(p(c), Scale \div 2)
              IN  Abs(CategorySum(probability_engine, c) - One) <= Eps =>
                     /\ Abs(new(c) - Div(half, One - half)) <= Eps
                     /\ \A d \in CategoryOf(c) \ {c} :
                           Abs(new(d) - Div(p(d), One - half)) <= Eps
       ]_vars

\* the weapon was shown twice for the same suggestion: the suspect, demoted
\* from a prior that was no longer uniform, is below its siblings
C18_Witness ==
    /\ KnownCardShown(last)
    /\ Len(suggestions) = 2
    /\ last.shown_card = last.weapon
    /\ suggestions[1].shown_card = last.weapon
    /\ suggestions[1].suspect = last.suspect
    /\ 3 * SolutionProb(probability_engine, last.suspect)
           < SolutionProb(probability_engine, "Mustard")

\* the matrix the specification's rule for a responder with an unknown card
\* gives before renormalisation: the players strictly between suggester and
\* responder zeroed on the suggested cards, the responder's entries for the
\* suggested cards it is not known to hold multiplied by 1.5
RefutedMatrix(t, call) ==
    [p \in PlayerSet |->
        [c \in Cards |->
            IF p \in StrictlyBetween(call.suggester, call.responder)
               /\ c \in SuggestedOf(call)
            THEN Zero
            ELSE IF p = call.responder /\ c \in SuggestedOf(call)
                    /\ c \notin t.known_cards[p]
            THEN Mul(t.player_card_probs[p][c], (3 * Scale) \div 2)
            ELSE t.player_card_probs[p][c]]]

(***************************************************************************)
(* C19.  For a suggestion with a responder and an unknown shown card the   *)
(* matrix after update_from_suggestion is the renormalisation (per card,   *)
(* then per player capacity) of the matrix before it with the suggested    *)
(* cards zeroed for the players strictly between suggester and responder   *)
(* and the responder's entries for the suggested cards outside its known   *)
(* set multiplied by 1.5, no other entry changed.                          *)
(***************************************************************************)
C19_RefutationUpdate ==
    [][(/\ last'.op = "update_from_suggestion"
        /\ last'.raised = "none"
        /\ ValidSuggestion(last')
        /\ RefutationEligible(last')) =>
          player_card_tracker'.player_card_probs =
              NormalizeProbabilities(RefutedMatrix(player_card_tracker, last'),
                                     player_card_tracker.known_cards)
       ]_vars

\* the last call was update_from_suggestion without responder, called
\* directly or by add_suggestion
NoResponderUpdate ==
    /\ last.op \in {"update_from_suggestion", "add_suggestion"}
    /\ last.raised = "none"
    /\ last.responder = None

UnknownRefutations(player, card) ==
    Cardinality({i \in 1..Len(suggestions) :
                    /\ suggestions[i].responder = player
                    /\ suggestions[i].shown_card = None
                    /\ card \in SuggestedOf(suggestions[i])})

(***************************************************************************)
(* C21.  record_suggestion changes the refutation counts exactly when the  *)
(* suggestion has a responder and no shown card: the responder's count of  *)
(* each of the three suggested cards grows by 1 and no other count         *)
(* changes, so every count is the number of unknown-card refutations by    *)
(* that player of suggestions containing that card.                        *)
(***************************************************************************)
C21_CountsAreUnknownRefutations ==
    /\ [](\A p \in PlayerSet, c \in Cards :
             rule_engine.refutation_history[p][c] = UnknownRefutations(p, c))
    /\ [][last'.op = "add_suggestion" =>
             rule_engine'.refutation_history =
                 [p \in PlayerSet |-> [c \in Cards |->
                     rule_engine.refutation_history[p][c] +
                        IF /\ RefutationEligible(last')
                           /\ p = last'.responder
                           /\ c \in SuggestedOf(last')
                        THEN 1 ELSE 0]]]_vars

\* the same responder refuted twice without the card being seen and a third
\* suggestion, whose card was seen, left the counts alone
C21_Witness ==
    /\ LastIsSuggestion /\ last.shown_card # None
    /\ Len(suggestions) = 3
    /\ rule_engine.refutation_history["A"]["Rope"] = 2
    /\ rule_engine.refutation_history["B"]["Rope"] = 0

\* the last call ran _normalize_probabilities: an update of the tracker,
\* called directly or by add_suggestion
LastNormalized ==
    /\ last.op \in {"update_from_suggestion", "mark_known_card",
                    "add_suggestion"}
    /\ last.raised = "none"

(***************************************************************************)
(* C22.  After every update_from_suggestion or mark_known_card, i.e. after *)
(* every _normalize_probabilities, the sum of all matrix entries of a      *)
(* player, known cards included, is at most the player's hand size.        *)
(***************************************************************************)
C22_RowWithinHandSize ==
    LastNormalized =>
        \A p \in PlayerSet :
            PlayerTotal(player_card_tracker.player_card_probs, p)
                <= hand_sizes[p] + Eps

(***************************************************************************)
(* C23.  Every entry of the player-card matrix and every entry of the      *)
(* three category distributions is in [0, 1], in every state.              *)
(***************************************************************************)
C23_ProbabilitiesInUnitInterval ==
    /\ \A p \in PlayerSet, c \in Cards :
          /\ player_card_tracker.player_card_probs[p][c] >= Zero
          /\ player_card_tracker.player_card_probs[p][c] <= One
    /\ \A c \in Cards :
          /\ SolutionProb(probability_engine, c) >= Zero
          /\ SolutionProb(probability_engine, c) <= One

\* the same responder refuted the same cards three times, each time raising
\* its entries by the factor 1.5
C23_Witness ==
    /\ Len(suggestions) = 3
    /\ \A i \in 1..3 : /\ suggestions[i].responder = "A"
                       /\ suggestions[i].shown_card = None
    /\ 3 * player_card_tracker.player_card_probs["A"]["Scarlett"]
           > 4 * player_card_tracker.player_card_probs["B"]["Scarlett"]
    /\ player_card_tracker.player_card_probs["B"]["Scarlett"] > Zero

\* suggestion i had no responder and every later one is a valid suggestion
\* with a responder whose shown card, if seen, is none of the cards of i;
\* the remainder cards were not set in between
SolutionFixedAt(i) ==
    /\ suggestions[i].responder = None
    /\ remainder_cards = {}
    /\ \A j \in (i + 1)..Len(suggestions) :
          /\ ValidSuggestion(suggestions[j])
          /\ suggestions[j].responder # None
          /\ suggestions[j].shown_card \notin SuggestedOf(suggestions[i])

\* every category of the engine is one-hot on the card of the suggestion
OneHotOn(e, call) ==
    \A c \in Cards :
        SolutionProb(e, c) = IF c \in SuggestedOf(call) THEN One ELSE Zero

(***************************************************************************)
(* C24.  Once a suggestion without responder has fixed the solution to     *)
(* (s, w, r), it stays fixed through every later sequence of suggestions   *)
(* that have a responder and show none of s, w, r: the categories are      *)
(* one-hot on s, w, r and get_most_likely_solution returns (s, w, r).      *)
(***************************************************************************)
C24_FixedSolutionPersists ==
    \A i \in 1..Len(suggestions) :
        (LastIsSuggestion /\ LastReturned /\ SolutionFixedAt(i)) =>
            /\ OneHotOn(probability_engine, suggestions[i])
            /\ get_most_likely_solution(probability_engine) =
                  [Suspect |-> suggestions[i].suspect,
                   Weapon |-> suggestions[i].weapon,
                   Room |-> suggestions[i].room]

(***************************************************************************)
(* C25.  In the tracker no card is both in a player's known set and in     *)
(* the same player's cannot-have set, in every state.                      *)
(***************************************************************************)
C25_KnownAndCannotHaveDisjoint ==
    \A p \in PlayerSet :
        player_card_tracker.known_cards[p]
            \cap player_card_tracker.cannot_have[p] = {}

(***************************************************************************)
(* C26.  Each card is in the known set of at most one player, in the       *)
(* tracker's known_cards and in the ledger's known_cards, in every state.  *)
(***************************************************************************)
C26_ExclusiveOwnership ==
    \A p \in PlayerSet, q \in PlayerSet :
        p # q =>
            /\ player_card_tracker.known_cards[p]
                   \cap player_card_tracker.known_cards[q] = {}
            /\ known_cards[p] \cap known_cards[q] = {}

(***************************************************************************)
(* C27.  In the tracker every card in a player's cannot-have set has       *)
(* matrix entry 0 for that player, in every state.                         *)
(***************************************************************************)
C27_CannotHaveIsZero ==
    \A p \in PlayerSet :
        \A c \in player_card_tracker.cannot_have[p] :
            player_card_tracker.player_card_probs[p][c] = Zero


\* the last call was a suggestion with a responder whose card was not seen
UnknownCardShown(call) ==
    /\ call.op = "add_suggestion"
    /\ call.responder # None /\ call.shown_card = None

\* every category of an engine sums to 1
CategoriesSumToOne(e) ==
    /\ Abs(Sum(e.suspect_probs, SUSPECTS) - One) <= Eps
    /\ Abs(Sum(e.weapon_probs, WEAPONS) - One) <= Eps
    /\ Abs(Sum(e.room_probs, ROOMS) - One) <= Eps

(***************************************************************************)
(* C28.  A suggestion with a responder and an unknown shown card leaves    *)
(* the three solution distributions and the envelope engine's known-card   *)
(* set unchanged, from every state in which each category sums to 1.       *)
(***************************************************************************)
C28_UnknownCardLeavesEngine ==
    [][(UnknownCardShown(last') /\ CategoriesSumToOne(probability_engine)) =>
          /\ probability_engine'.known_cards = probability_engine.known_cards
          /\ \A c \in Cards :
                Abs(SolutionProb(probability_engine', c)
                    - SolutionProb(probability_engine, c)) <= Eps
       ]_vars

\* a card was shown first, so the distributions are no longer uniform when
\* the responder of the second suggestion shows a card nobody sees
C28_Witness ==
    /\ UnknownCardShown(last)
    /\ Len(suggestions) = 2
    /\ suggestions[1].shown_card = last.suspect
    /\ probability_engine.known_cards = {last.suspect}
    /\ SolutionProb(probability_engine, last.suspect) = Zero
    /\ SolutionProb(probability_engine, last.weapon)
           < SolutionProb(probability_engine, "Knife")


(***************************************************************************)
(* C29.  Once set_remainder_cards has run, every remainder card is         *)
(* globally known, has solution probability 0 and has matrix entry 0 for   *)
(* every player, in that state and in every later one.                     *)
(***************************************************************************)
C29_RemainderCardsExcluded ==
    \A c \in remainder_cards :
        /\ c \in global_known_cards
        /\ SolutionProb(probability_engine, c) = Zero
        /\ \A p \in PlayerSet :
              player_card_tracker.player_card_probs[p][c] = Zero


(***************************************************************************)
(* C30.  Soft reinforcement is monotone: after a suggestion with responder *)
(* R and unknown shown card, R's matrix probability for each suggested     *)
(* card that was non-zero and not known for R before the call is not       *)
(* lower than before the call, the first event of a game included.         *)
(***************************************************************************)
C30_ReinforcementMonotone ==
    [][(UnknownCardShown(last') /\ last'.raised = "none"
            /\ ValidSuggestion(last')) =>
          LET R == last'.responder
              before == player_card_tracker.player_card_probs[R]
              after == player_card_tracker'.player_card_probs[R]
          IN  \A c \in SuggestedOf(last') :
                  (before[c] > Zero
                      /\ c \notin player_card_tracker.known_cards[R]) =>
                      after[c] + Eps >= before[c]
       ]_vars

====
